---------------------------- MODULE Spec2Model ----------------------------
(***************************************************************************)
(* Model of x509_canonical_name.py: the canonical, friendly, comparison    *)
(* and ordered representations of an X.509 distinguished name.             *)
(*                                                                         *)
(* A str is a sequence of code points, a bytes object a sequence of        *)
(* integers 0..255.  An attribute type is the object identifier's arcs, an *)
(* attribute value is what the ASN.1 layer exposes of it: whether it is a  *)
(* DirectoryString choice, the tag of the (chosen) string type, and its    *)
(* native string.                                                          *)
(***************************************************************************)
EXTENDS Integers, Sequences, FiniteSets

(* ------------------------------ bounds --------------------------------- *)

\* longest native string of a text-only name
MaxLen == 3
\* most RDNs of a structured name
MaxRDNs == 2
\* most AVAs of a structured name, over all its RDNs
MaxAVAs == 3

(* --------------------------- str primitives ---------------------------- *)

Range(s) == {s[i] : i \in 1..Len(s)}

RECURSIVE Concat(_)
\* "".join(ss) for a sequence of strs
Concat(ss) == IF ss = <<>> THEN <<>> ELSE Head(ss) \o Concat(Tail(ss))

RECURSIVE Join(_, _)
\* sep.join(ss)
Join(sep, ss) ==
  IF ss = <<>> THEN <<>>
  ELSE IF Len(ss) = 1 THEN ss[1]
  ELSE ss[1] \o sep \o Join(sep, Tail(ss))

RECURSIVE SeqLess(_, _)
\* a < b for two strs (by code point) or two lists of int: the first
\* differing element decides, a proper prefix is smaller
SeqLess(a, b) ==
  IF b = <<>> THEN FALSE
  ELSE IF a = <<>> THEN TRUE
  ELSE IF a[1] # b[1] THEN a[1] < b[1]
  ELSE SeqLess(Tail(a), Tail(b))

RECURSIVE Digits(_)
\* str(n) for n >= 0
Digits(n) == IF n < 10 THEN <<48 + n>> ELSE Digits(n \div 10) \o <<48 + (n % 10)>>

RECURSIVE ParseInt(_)
\* int(x) for a str of ASCII digits
ParseInt(x) ==
  IF x = <<>> THEN 0
  ELSE 10 * ParseInt(SubSeq(x, 1, Len(x) - 1)) + (x[Len(x)] - 48)

RECURSIVE Split(_, _)
\* t.split(sep) for a one-character sep
Split(t, sep) ==
  IF \A i \in 1..Len(t) : t[i] # sep THEN <<t>>
  ELSE LET i == CHOOSE k \in 1..Len(t) : t[k] = sep /\ \A j \in 1..(k - 1) : t[j] # sep
       IN  <<SubSeq(t, 1, i - 1)>> \o Split(SubSeq(t, i + 1, Len(t)), sep)

\* ObjectIdentifier.dotted: the arcs in decimal, joined by "."
Dotted(arcs) == Join(<<46>>, [i \in 1..Len(arcs) |-> Digits(arcs[i])])

(* ---------------------- Unicode character data ------------------------- *)
(* str.upper, str.lower and NFKD over the repertoire the inputs and their  *)
(* images use: ASCII, U+00A0, U+00DF, U+0130, U+0131, U+0307, U+1E9E,      *)
(* U+210C, U+3000, U+FE5F, U+FF03.  (Python's only context rule, final     *)
(* sigma, needs a Greek sigma, which is outside this repertoire.)          *)

UpperChar(c) ==
  IF c >= 97 /\ c <= 122 THEN <<c - 32>>
  ELSE IF c = 223 THEN <<83, 83>>
  ELSE IF c = 305 THEN <<73>>
  ELSE <<c>>

LowerChar(c) ==
  IF c >= 65 /\ c <= 90 THEN <<c + 32>>
  ELSE IF c = 304 THEN <<105, 775>>
  ELSE IF c = 7838 THEN <<223>>
  ELSE <<c>>

NFKDChar(c) ==
  IF c = 160 \/ c = 12288 THEN <<32>>
  ELSE IF c = 304 THEN <<73, 775>>
  ELSE IF c = 8460 THEN <<72>>
  ELSE IF c = 65119 \/ c = 65283 THEN <<35>>
  ELSE <<c>>

\* s.upper()
Upper(s) == Concat([i \in 1..Len(s) |-> UpperChar(s[i])])

\* s.lower()
Lower(s) == Concat([i \in 1..Len(s) |-> LowerChar(s[i])])

\* unicodedata.normalize("NFKD", s)
NFKD(s) == Concat([i \in 1..Len(s) |-> NFKDChar(s[i])])

(* ------------------------- the ASN.1 layer ----------------------------- *)

\* universal tag of UTF8String
U8 == 12
\* universal tag of PrintableString
PS == 19

\* av.native of a value without contents (Python's None)
None == <<-1>>

\* one code point in UTF-8
Utf8(c) ==
  IF c < 128 THEN <<c>>
  ELSE IF c < 2048 THEN <<192 + (c \div 64), 128 + (c % 64)>>
  ELSE <<224 + (c \div 4096), 128 + ((c \div 64) % 64), 128 + (c % 64)>>

\* av.dump(): the DER encoding (tag, short-form length, contents) of a string
\* value; a DirectoryString choice encodes as its chosen string
Dump(av) ==
  LET contents == IF av.native = None THEN <<>>
                  ELSE Concat([i \in 1..Len(av.native) |-> Utf8(av.native[i])])
  IN  <<av.tag, Len(contents)>> \o contents

HexDigit(n) == IF n < 10 THEN 48 + n ELSE 87 + n

\* binascii.hexlify(b).decode()
Hexlify(b) == Concat([i \in 1..Len(b) |-> <<HexDigit(b[i] \div 16), HexDigit(b[i] % 16)>>])

(* --------------------------- the registry ------------------------------ *)

\* the nine standard attribute types: dotted OID |-> abbreviation
oids ==
  { <<Dotted(<<2, 5, 4, 3>>), <<99, 110>>>>,                            \* cn
    <<Dotted(<<2, 5, 4, 6>>), <<99>>>>,                                 \* c
    <<Dotted(<<2, 5, 4, 7>>), <<108>>>>,                                \* l
    <<Dotted(<<2, 5, 4, 8>>), <<115, 116>>>>,                           \* st
    <<Dotted(<<2, 5, 4, 9>>), <<115, 116, 114, 101, 101, 116>>>>,       \* street
    <<Dotted(<<2, 5, 4, 10>>), <<111>>>>,                               \* o
    <<Dotted(<<2, 5, 4, 11>>), <<111, 117>>>>,                          \* ou
    <<Dotted(<<0, 9, 2342, 19200300, 100, 1, 1>>), <<117, 105, 100>>>>, \* uid
    <<Dotted(<<0, 9, 2342, 19200300, 100, 1, 25>>), <<100, 99>>>> }     \* dc

\* the characters escaped with a backslash: , + < > ; " \
esc == {44, 43, 60, 62, 59, 34, 92}

\* the characters stripped from both ends: U+0000 .. U+0020
cws == 0..32

(* ------------------------- value normalizer ---------------------------- *)

\* Translate with the escapees replaced one after another, the backslash
\* last: the backslashes put in for the others are escaped again
Translate_backslash_last(s) ==
  Concat([i \in 1..Len(s) |->
            IF s[i] = 92 THEN <<92, 92>>
            ELSE IF s[i] \in esc THEN <<92, 92, s[i]>>
            ELSE <<s[i]>>])

\* s.translate(esc): one pass, each escapee becomes backslash + itself
Translate(s) ==
  Concat([i \in 1..Len(s) |-> IF s[i] \in esc THEN <<92, s[i]>> ELSE <<s[i]>>])

\* re.sub(r" +", " ", s): every maximal run of U+0020 becomes one U+0020
ReSubSpaces(s) ==
  Concat([i \in 1..Len(s) |->
            IF s[i] = 32 /\ i > 1 /\ s[i - 1] = 32 THEN <<>> ELSE <<s[i]>>])

RECURSIVE LStrip(_, _)
LStrip(s, chars) ==
  IF s # <<>> /\ s[1] \in chars THEN LStrip(Tail(s), chars) ELSE s

RECURSIVE RStrip(_, _)
RStrip(s, chars) ==
  IF s # <<>> /\ s[Len(s)] \in chars THEN RStrip(SubSeq(s, 1, Len(s) - 1), chars) ELSE s

\* s.strip(chars)
Strip(s, chars) == RStrip(LStrip(s, chars), chars)

\* IsDirectoryText without the DirectoryString test: any UTF8String or
\* PrintableString counts as text
IsDirectoryText_any_string(av) == av.tag \in {U8, PS}

\* not (isinstance(av, DS) and isinstance(av.chosen, (U8, PS))), negated
IsDirectoryText(av) == av.ds /\ av.tag \in {U8, PS}

\* RawValue without the backslash in front of a leading "#"
RawValue_hash_unescaped(av) ==
  Translate(IF av.native = None THEN <<>> ELSE av.native)

\* rv of a directory string: escaped, and a leading "#" escaped too
RawValue(av) ==
  LET rv == Translate(IF av.native = None THEN <<>> ELSE av.native)
  IN  IF rv # <<>> /\ rv[1] = 35 THEN <<92>> \o rv ELSE rv

\* NormalizedValue without the case fold
NormalizedValue_no_fold(rv) == NFKD(Strip(ReSubSpaces(rv), cws))

\* NormalizedValue escaping its argument once more
NormalizedValue_escaping_again(rv) ==
  NFKD(Lower(Upper(Strip(ReSubSpaces(Translate(rv)), cws))))

\* nv of a directory string, from its rv
NormalizedValue(rv) == NFKD(Lower(Upper(Strip(ReSubSpaces(rv), cws))))

\* rv = nv of any other value
HexValue(av) == <<35>> \o Hexlify(Dump(av))

\* the (o, t, nv, rv) tuple of one AVA
OrderedAVA(ava) ==
  LET dotted == Dotted(ava.type)
      known  == {e \in oids : e[1] = dotted}
      o      == IF known # {} THEN 0 ELSE 1
      t      == IF known # {} THEN (CHOOSE e \in known : TRUE)[2] ELSE dotted
      rv     == IF IsDirectoryText(ava.value) THEN RawValue(ava.value)
                ELSE HexValue(ava.value)
      nv     == IF IsDirectoryText(ava.value) THEN NormalizedValue(rv) ELSE rv
  IN  <<o, t, nv, rv>>

(* ----------------------------- AVA orderer ----------------------------- *)

\* [int(x) for x in t.split(".")]
SplitInts(t) == LET parts == Split(t, 46) IN [i \in 1..Len(parts) |-> ParseInt(parts[i])]

\* key comparing the dotted OID as a str in both modes
key_string_only(ava, android) == <<ava[1], ava[2], ava[3]>>

\* key without the flag that puts the standard types first
key_without_flag(ava, android) ==
  IF android /\ ava[1] # 0
  THEN <<0, SplitInts(ava[2]), ava[3]>>
  ELSE <<0, ava[2], ava[3]>>

\* the sort key of an (o, t, nv, rv) tuple
key(ava, android) ==
  IF android /\ ava[1] # 0
  THEN <<ava[1], SplitInts(ava[2]), ava[3]>>
  ELSE <<ava[1], ava[2], ava[3]>>

\* k1 < k2 for two keys: field by field
KeyLess(k1, k2) ==
  IF k1[1] # k2[1] THEN k1[1] < k2[1]
  ELSE IF k1[2] # k2[2] THEN SeqLess(k1[2], k2[2])
  ELSE SeqLess(k1[3], k2[3])

RECURSIVE Insert(_, _, _)
\* x placed before the first element whose key is greater than x's
Insert(sorted, x, android) ==
  IF sorted = <<>> THEN <<x>>
  ELSE IF KeyLess(key(x, android), key(sorted[1], android)) THEN <<x>> \o sorted
  ELSE <<sorted[1]>> \o Insert(Tail(sorted), x, android)

\* the AVAs left in the order of the input
Sorted_unsorted(avas, android) == avas

RECURSIVE Sorted(_, _)
\* sorted(avas, key=key): ascending and stable
Sorted(avas, android) ==
  IF avas = <<>> THEN <<>>
  ELSE Insert(Sorted(SubSeq(avas, 1, Len(avas) - 1), android), avas[Len(avas)], android)

(* ---------------------------- name assembler --------------------------- *)

\* the AVAs of one RDN, in sorted order
OrderedRDN(rdn, android) ==
  Sorted([j \in 1..Len(rdn) |-> OrderedAVA(rdn[j])], android)

\* x509_ordered_name walking the RDNs in the order of the input
x509_ordered_name_not_reversed(name, android) ==
  [i \in 1..Len(name) |-> OrderedRDN(name[i], android)]

x509_ordered_name(name, android) ==
  [i \in 1..Len(name) |-> OrderedRDN(name[Len(name) + 1 - i], android)]

(* ------------------------------ renderers ------------------------------ *)

\* x509_comparison_name not passing its android argument on
x509_comparison_name_default_mode(name, android) ==
  LET data == x509_ordered_name(name, FALSE)
  IN  [i \in 1..Len(data) |-> [j \in 1..Len(data[i]) |-> <<data[i][j][2], data[i][j][3]>>]]

x509_comparison_name(name, android) ==
  LET data == x509_ordered_name(name, android)
  IN  [i \in 1..Len(data) |-> [j \in 1..Len(data[i]) |-> <<data[i][j][2], data[i][j][3]>>]]

x509_canonical_name(name, android) ==
  LET data == x509_comparison_name(name, android)
  IN  Join(<<44>>,
           [i \in 1..Len(data) |->
              Join(<<43>>, [j \in 1..Len(data[i]) |-> data[i][j][1] \o <<61>> \o data[i][j][2]])])

\* str.isprintable of one character of the repertoire
IsPrintable(c) == ~(c < 32 \/ (c >= 127 /\ c <= 160) \/ c = 173 \/ c = 12288)

\* c as \xNN or \uNNNN
HexEscape(c) ==
  IF c < 256
  THEN <<92, 120, HexDigit(c \div 16), HexDigit(c % 16)>>
  ELSE <<92, 117, HexDigit(c \div 4096), HexDigit((c \div 256) % 16),
         HexDigit((c \div 16) % 16), HexDigit(c % 16)>>

\* repr(s)[1:-1]: repr's escapes, without the quotes around them
ReprBody(s) ==
  LET quote == IF 39 \in Range(s) /\ 34 \notin Range(s) THEN 34 ELSE 39
      one(c) == IF c = 92 \/ c = quote THEN <<92, c>>
                ELSE IF c = 9 THEN <<92, 116>>
                ELSE IF c = 10 THEN <<92, 110>>
                ELSE IF c = 13 THEN <<92, 114>>
                ELSE IF IsPrintable(c) THEN <<c>>
                ELSE HexEscape(c)
  IN  Concat([i \in 1..Len(s) |-> one(s[i])])

x509_friendly_name(name, android) ==
  LET data == x509_ordered_name(name, android)
  IN  Join(<<44, 32>>,
           [i \in 1..Len(data) |->
              Join(<<43>>, [j \in 1..Len(data[i]) |->
                              Upper(data[i][j][2]) \o <<61>> \o ReprBody(data[i][j][4])])])

(* ------------------------------- inputs -------------------------------- *)

\* the characters of the native strings: TAB, SPACE, # , \ A a, U+00A0
\* (NO-BREAK SPACE), U+0130 (LATIN CAPITAL LETTER I WITH DOT ABOVE) and
\* U+1E9E (LATIN CAPITAL LETTER SHARP S)
Alphabet == {9, 32, 35, 44, 92, 65, 97, 160, 304, 7838}

Strings == UNION {[1..n -> Alphabet] : n \in 0..MaxLen}

\* commonName
CN == <<2, 5, 4, 3>>

\* a commonName AVA holding the directory string s as UTF8String
TextAVA(s) == [type |-> CN, value |-> [ds |-> TRUE, tag |-> U8, native |-> s]]

\* the names of one RDN of one commonName AVA, over every native string
TextNames == {<<<<TextAVA(s)>>>> : s \in Strings \cup {None}}

\* the AVAs of the structured names: two commonNames equal up to case, and
\* two attribute types outside the registry, whose values the ASN.1 layer
\* leaves undecoded (not a DirectoryString)
SmallAVAs ==
  { TextAVA(<<97>>),
    TextAVA(<<65>>),
    [type |-> <<0, 1, 2, 3>>, value |-> [ds |-> FALSE, tag |-> U8, native |-> <<51, 55>>]],
    [type |-> <<0, 1, 11, 3>>, value |-> [ds |-> FALSE, tag |-> U8, native |-> <<52, 50>>]] }

\* the first name of the doctest, /OU=a/CN= Foo+CN=bar /OU=b/C=xx, and the
\* first two RDNs of the second, /custom2=42+custom1=37+O=org/emailAddress=x@y
DoctestNames ==
  LET text(t, g, s) == [type |-> t, value |-> [ds |-> TRUE, tag |-> g, native |-> s]]
      other(t, g, s) == [type |-> t, value |-> [ds |-> FALSE, tag |-> g, native |-> s]]
  IN  { << <<text(<<2, 5, 4, 11>>, U8, <<97>>)>>,
           <<text(CN, U8, <<32, 70, 111, 111>>), text(CN, U8, <<98, 97, 114, 32>>)>>,
           <<text(<<2, 5, 4, 11>>, U8, <<98>>)>>,
           <<text(<<2, 5, 4, 6>>, PS, <<120, 120>>)>> >>,
        << <<other(<<0, 1, 2, 3>>, U8, <<51, 55>>),
             other(<<0, 1, 11, 3>>, U8, <<52, 50>>),
             text(<<2, 5, 4, 10>>, U8, <<111, 114, 103>>)>>,
           <<other(<<1, 2, 840, 113549, 1, 9, 1>>, 22, <<120, 64, 121>>)>> >> }

RECURSIVE Sum(_)
Sum(s) == IF s = <<>> THEN 0 ELSE s[1] + Sum(Tail(s))

\* the flat sequence of AVAs cut into RDNs of the given sizes
Build(flat, sizes) ==
  [i \in 1..Len(sizes) |->
     LET before == Sum(SubSeq(sizes, 1, i - 1))
     IN  SubSeq(flat, before + 1, before + sizes[i])]

\* the names of at most MaxRDNs RDNs (empty ones included) holding at most
\* MaxAVAs AVAs together
StructuredNames ==
  UNION {UNION {{Build(flat, sizes) :
                   flat \in [1..n -> SmallAVAs],
                   sizes \in {sz \in [1..r -> 0..n] : Sum(sz) = n}} :
                n \in 0..MaxAVAs} :
         r \in 0..MaxRDNs}

\* one-AVA names over the ways the ASN.1 layer can type a value: a
\* DirectoryString choice of UTF8String, PrintableString or TeletexString
\* (tag 20) under commonName, and a bare UTF8String, PrintableString,
\* TeletexString or IA5String (tag 22) under emailAddress
TaggedNames ==
  LET natives == {<<32, 65>>, <<35>>, <<7838, 44>>, <<65283, 97>>}
  IN  {<<<<[type |-> CN, value |-> [ds |-> TRUE, tag |-> g, native |-> s]]>>>> :
         g \in {U8, PS, 20}, s \in natives}
      \cup
      {<<<<[type |-> <<1, 2, 840, 113549, 1, 9, 1>>,
           value |-> [ds |-> FALSE, tag |-> g, native |-> s]]>>>> :
         g \in {U8, PS, 20, 22}, s \in natives}

\* the names whose structure varies
NameInputs == StructuredNames \cup TaggedNames \cup DoctestNames

\* the names whose one directory string varies
TextInputs == TextNames \cup TaggedNames

(* ---------------------------- state machine ---------------------------- *)

VARIABLES
  name,     \* the x509.Name the caller holds
  android,  \* the android keyword argument of the last call
  op,       \* the public function called last
  result    \* what it returned

vars == <<name, android, op, result>>

\* a behaviour is one call of one public function on one name
Init ==
  /\ name \in NameInputs
  /\ android = FALSE
  /\ op = "none"
  /\ result = <<>>

OrderedName ==
  \E a \in BOOLEAN :
    /\ op = "none"
    /\ android' = a
    /\ op' = "ordered"
    /\ result' = x509_ordered_name(name, a)
    /\ UNCHANGED name

ComparisonName ==
  \E a \in BOOLEAN :
    /\ op = "none"
    /\ android' = a
    /\ op' = "comparison"
    /\ result' = x509_comparison_name(name, a)
    /\ UNCHANGED name

CanonicalName ==
  \E a \in BOOLEAN :
    /\ op = "none"
    /\ android' = a
    /\ op' = "canonical"
    /\ result' = x509_canonical_name(name, a)
    /\ UNCHANGED name

FriendlyName ==
  \E a \in BOOLEAN :
    /\ op = "none"
    /\ android' = a
    /\ op' = "friendly"
    /\ result' = x509_friendly_name(name, a)
    /\ UNCHANGED name

Next == OrderedName \/ ComparisonName \/ CanonicalName \/ FriendlyName

Spec == Init /\ [][Next]_vars

\* the same call, on a name of one AVA
TextInit ==
  /\ name \in TextInputs
  /\ android = FALSE
  /\ op = "none"
  /\ result = <<>>

TextSpec == TextInit /\ [][Next]_vars

(* ------------------------- shared vocabulary --------------------------- *)

\* the input RDN the i-th RDN of the result comes from
InputRDN(i) == name[Len(name) + 1 - i]

\* how often x occurs in the sequence q
CountOf(q, x) == Cardinality({j \in 1..Len(q) : q[j] = x})

\* the value is a UTF8String or PrintableString chosen in a DirectoryString
IsText(v) == v.ds /\ (v.tag = 12 \/ v.tag = 19)

\* the native string of a text value, "" for a missing one
NativeOf(v) == IF v.native = None THEN <<>> ELSE v.native

StartsWithHash(s) == s # <<>> /\ s[1] = 35

\* the label the registry of section 4.1 gives the arcs
LabelOf(arcs) ==
  CASE arcs = <<2, 5, 4, 3>> -> <<99, 110>>
    [] arcs = <<2, 5, 4, 6>> -> <<99>>
    [] arcs = <<2, 5, 4, 10>> -> <<111>>
    [] arcs = <<2, 5, 4, 11>> -> <<111, 117>>
    [] OTHER -> Dotted(arcs)

\* the name is one RDN of one AVA holding a present directory string
IsTextName == /\ Len(name) = 1
              /\ Len(name[1]) = 1
              /\ IsText(name[1][1].value)
              /\ name[1][1].value.native # None

RECURSIVE Arrangements(_)
\* the elements of the set S in every order
Arrangements(S) ==
  IF S = {} THEN {<<>>}
  ELSE UNION {{<<x>> \o p : p \in Arrangements(S \ {x})} : x \in S}

\* the permutations of 1..n
Permutations(n) == Arrangements(1..n)

\* the name with the AVAs of its r-th RDN permuted by p
PermuteRDN(nm, r, p) ==
  [i \in 1..Len(nm) |-> IF i = r THEN [j \in 1..Len(nm[r]) |-> nm[r][p[j]]] ELSE nm[i]]

\* an ordered name without its raw values
WithoutRaw(data) ==
  [i \in 1..Len(data) |-> [j \in 1..Len(data[i]) |-> SubSeq(data[i][j], 1, 3)]]

(* -------------------------------- C1 ----------------------------------- *)

\* no two AVAs of the RDN agree on (oid_flag, type_label, normalized_value)
\* and differ in raw_value
NoRawTies(rdn) ==
  \A j, k \in 1..Len(rdn) :
    SubSeq(OrderedAVA(rdn[j]), 1, 3) = SubSeq(OrderedAVA(rdn[k]), 1, 3)
      => OrderedAVA(rdn[j]) = OrderedAVA(rdn[k])

\* C1 as stated: permuting the AVAs of one input RDN leaves the result of
\* x509_ordered_name unchanged, 4-tuple by 4-tuple, in either mode, also when
\* two AVAs differ in raw_value only.
C1_OrderInvariance ==
  op = "ordered" =>
    \A r \in 1..Len(name) : \A p \in Permutations(Len(name[r])) :
      x509_ordered_name(PermuteRDN(name, r, p), android) = result

\* C1 amended: permuting the AVAs of one input RDN leaves the (oid_flag,
\* type_label, normalized_value) triples of the result unchanged in either
\* mode, and the whole 4-tuples too unless two AVAs of the RDN have the same
\* triple and different raw_value (those keep their input order).
C1_OrderInvarianceUpToTies ==
  op = "ordered" =>
    \A r \in 1..Len(name) :
      LET tied == ~NoRawTies(name[r])
      IN  \A p \in Permutations(Len(name[r])) :
            LET other == x509_ordered_name(PermuteRDN(name, r, p), android)
            IN  IF tied THEN WithoutRaw(other) = WithoutRaw(result) ELSE other = result

\* an RDN given out of order was sorted, and another result holds two AVAs
\* that differ in raw_value only
C1_Witness ==
  /\ op = "ordered"
  /\ \E r \in 1..Len(name) :
       /\ Len(name[r]) >= 2
       /\ ~NoRawTies(name[r])
       /\ result[Len(name) + 1 - r] # [j \in 1..Len(name[r]) |-> OrderedAVA(name[r][j])]

(* -------------------------------- C2 ----------------------------------- *)

\* s with one ASCII letter changed in case, one run of spaces made one longer
\* or shorter, or one character <= U+0020 added or removed at an end
Variants(s) ==
  LET n == Len(s)
      without(i) == SubSeq(s, 1, i - 1) \o SubSeq(s, i + 1, n)
  IN  {[s EXCEPT ![i] = s[i] + 32] : i \in {k \in 1..n : s[k] >= 65 /\ s[k] <= 90}}
      \cup {[s EXCEPT ![i] = s[i] - 32] : i \in {k \in 1..n : s[k] >= 97 /\ s[k] <= 122}}
      \cup {SubSeq(s, 1, i) \o <<32>> \o SubSeq(s, i + 1, n) : i \in {k \in 1..n : s[k] = 32}}
      \cup {without(i) : i \in {k \in 2..n : s[k] = 32 /\ s[k - 1] = 32}}
      \cup {<<c>> \o s : c \in {0, 9, 32}}
      \cup {s \o <<c>> : c \in {0, 9, 32}}
      \cup {without(i) : i \in {k \in {1, n} : k >= 1 /\ k <= n /\ s[k] <= 32}}

TextName(s) == <<<<[name[1][1] EXCEPT !.value.native = s]>>>>

\* C2 as stated: the canonical name of a one-AVA name does not change when
\* the directory string changes the case of its ASCII letters, the length of
\* a run of spaces, or the characters <= U+0020 at its ends.
C2_CaseWhitespaceInsensitive ==
  (op = "canonical" /\ IsTextName) =>
    \A v \in Variants(name[1][1].value.native) :
      x509_canonical_name(TextName(v), android) = result

\* C2 amended: as stated, provided the two strings both begin with "#" or
\* both do not (characters <= U+0020 in front of a leading "#" turn the
\* canonical \# into a bare #); and a TAB between two characters above U+0020
\* is kept in the canonical name.
C2_CaseWhitespaceInsensitiveModuloHash ==
  (op = "canonical" /\ IsTextName) =>
    LET s == name[1][1].value.native
    IN  /\ \A v \in Variants(s) :
             (StartsWithHash(v) <=> StartsWithHash(s))
               => x509_canonical_name(TextName(v), android) = result
        /\ CountOf(result, 9) = CountOf(Strip(s, 0..32), 9)

\* a string in mixed case with a run of two spaces and a TAB inside
C2_Witness ==
  /\ op = "canonical"
  /\ IsTextName
  /\ \E s \in {name[1][1].value.native} :
       /\ Len(s) >= 3
       /\ s[1] = 65
       /\ \/ s[2] = 32 /\ s[3] = 32
          \/ s[2] = 9 /\ s[3] = 97
  /\ result # <<99, 110, 61>> \o name[1][1].value.native

(* -------------------------------- C3 ----------------------------------- *)

\* the tuple stands for a directory string: its raw_value is no hex string
IsTextTuple(x) == ~StartsWithHash(x[4])

\* C3 as stated: normalizing the normalized_value of a directory string again
\* gives the same string, whatever characters the string holds.
C3_NormalizationIdempotent ==
  op = "ordered" =>
    \A i \in 1..Len(result) : \A j \in 1..Len(result[i]) :
      IsTextTuple(result[i][j]) => NormalizedValue(result[i][j][3]) = result[i][j][3]

\* C3 amended: normalizing the normalized_value again gives the same string
\* for every directory string made of ASCII characters, and for any other
\* whose normalized_value is already a fixed point of the space collapsing,
\* the end stripping and the case fold; it does not for U+00A0 (decomposes to
\* a space that the second pass strips or collapses) or U+1E9E (folds to
\* U+00DF, which folds to "ss").
C3_NormalizationIdempotentOnFixedPoints ==
  op = "ordered" =>
    \A i \in 1..Len(result) : \A j \in 1..Len(result[i]) :
      LET nv == result[i][j][3]
          rv == result[i][j][4]
      IN  IsTextTuple(result[i][j]) =>
            /\ (\A k \in 1..Len(rv) : rv[k] < 128) => NormalizedValue(nv) = nv
            /\ (Strip(ReSubSpaces(nv), 0..32) = nv /\ Lower(Upper(nv)) = nv)
                 => NormalizedValue(nv) = nv

\* an ASCII directory string that normalization changed (case, spaces, an
\* escape) was normalized
C3_Witness ==
  /\ op = "ordered"
  /\ IsTextName
  /\ LET s == name[1][1].value.native
     IN  /\ \A k \in 1..Len(s) : s[k] < 128
         /\ {32, 44, 65} \subseteq Range(s)
  /\ result[1][1][3] # result[1][1][4]

(* -------------------------------- C4 ----------------------------------- *)

\* C4: x509_ordered_name returns as many RDNs as the name has, and its i-th
\* RDN holds exactly the tuples of the AVAs of the (N+1-i)-th input RDN,
\* each as often as there: none dropped, duplicated, merged or moved.
C4_ReversalPreservesAVAs ==
  op = "ordered" =>
    /\ Len(result) = Len(name)
    /\ \A i \in 1..Len(result) :
         LET rdn  == InputRDN(i)
             made == [j \in 1..Len(rdn) |-> OrderedAVA(rdn[j])]
         IN  /\ Len(result[i]) = Len(rdn)
             /\ \A x \in Range(result[i]) \cup Range(made) :
                  CountOf(result[i], x) = CountOf(made, x)

\* two different RDNs, one of them with more than one AVA, came out reversed
C4_Witness ==
  /\ op = "ordered"
  /\ Len(name) = 2
  /\ Len(name[1]) = 2
  /\ Len(name[2]) = 1
  /\ Len(result[1]) = 1
  /\ Len(result[2]) = 2
  /\ name[1][1] # name[1][2]

(* -------------------------------- C5 ----------------------------------- *)

\* the arcs of the attribute type the tuple of the i-th result RDN came from
ArcsOf(i, x) ==
  (CHOOSE a \in Range(InputRDN(i)) : LabelOf(a.type) = x[2]).type

\* the tuples of one RDN with a standard type, in order
Standard(rdn) == SelectSeq(rdn, LAMBDA x : x[1] = 0)

\* C5: two OID-named tuples of one RDN stand in the order of their arcs
\* compared as integers when android is true and in the order of their dotted
\* strings when it is false; the flag changes neither the order of the
\* standard-type tuples nor which tuples an RDN holds.
C5_NumericOIDOrder ==
  op = "ordered" =>
    LET other == x509_ordered_name(name, ~android)
    IN  \A i \in 1..Len(result) :
          /\ \A j, k \in 1..Len(result[i]) :
               (j < k /\ result[i][j][1] = 1 /\ result[i][k][1] = 1) =>
                 IF android
                 THEN ~SeqLess(ArcsOf(i, result[i][k]), ArcsOf(i, result[i][j]))
                 ELSE ~SeqLess(result[i][k][2], result[i][j][2])
          /\ Standard(result[i]) = Standard(other[i])
          /\ \A x \in Range(result[i]) \cup Range(other[i]) :
               CountOf(result[i], x) = CountOf(other[i], x)

\* 0.1.2.3 came out before 0.1.11.3 in android mode although the input had
\* them the other way round, next to a standard-type AVA
C5_Witness ==
  /\ op = "ordered"
  /\ android
  /\ Len(name) = 1
  /\ Len(name[1]) = 3
  /\ name[1][1].type = <<0, 1, 11, 3>>
  /\ name[1][2].type = <<0, 1, 2, 3>>
  /\ name[1][3].type = <<2, 5, 4, 3>>
  /\ result[1][1][1] = 0
  /\ result[1][2][2] = Dotted(<<0, 1, 2, 3>>)
  /\ result[1][3][2] = Dotted(<<0, 1, 11, 3>>)

(* -------------------------------- C6 ----------------------------------- *)

\* the value of one lowercase hexadecimal digit, -1 for any other character
HexVal(c) == IF c >= 48 /\ c <= 57 THEN c - 48
             ELSE IF c >= 97 /\ c <= 102 THEN c - 87
             ELSE -1

\* h is the lowercase hexadecimal of the bytes b
IsLowerHexOf(h, b) ==
  /\ Len(h) = 2 * Len(b)
  /\ \A k \in 1..Len(b) :
       /\ HexVal(h[2 * k - 1]) >= 0
       /\ HexVal(h[2 * k]) >= 0
       /\ 16 * HexVal(h[2 * k - 1]) + HexVal(h[2 * k]) = b[k]

\* C6: every value that is not a UTF8String or PrintableString chosen in a
\* DirectoryString comes out with raw_value = normalized_value = "#" and the
\* lowercase hexadecimal of its DER bytes, nothing escaped, stripped or
\* folded.
C6_HexFallback ==
  op = "ordered" =>
    \A i \in 1..Len(result) : \A a \in Range(InputRDN(i)) :
      ~IsText(a.value) =>
        \E x \in Range(result[i]) :
          /\ x[2] = LabelOf(a.type)
          /\ x[3] = x[4]
          /\ StartsWithHash(x[4])
          /\ IsLowerHexOf(Tail(x[4]), Dump(a.value))

\* a TeletexString chosen in a DirectoryString, with a character of three
\* UTF-8 bytes and an escapee, came out as hex
C6_Witness ==
  /\ op = "ordered"
  /\ Len(name) = 1
  /\ Len(name[1]) = 1
  /\ name[1][1].value = [ds |-> TRUE, tag |-> 20, native |-> <<7838, 44>>]
  /\ Len(result[1][1][4]) = 13
  /\ result[1][1][3] = result[1][1][4]

(* -------------------------------- C7 ----------------------------------- *)

RECURSIVE Flatten(_, _, _)
\* the strs of items, each after the first preceded by sep, left to right
Flatten(items, sep, first) ==
  IF items = <<>> THEN <<>>
  ELSE (IF first THEN <<>> ELSE sep) \o items[1] \o Flatten(Tail(items), sep, FALSE)

\* C7: x509_comparison_name is x509_ordered_name with every tuple cut down
\* to (type_label, normalized_value), position by position; the canonical
\* name is those pairs as type=value joined by "+" within and "," between
\* RDNs; the friendly name lists TYPE=repr(raw_value) in the same RDN and AVA
\* order, joined by "+" and ", ".
C7_RenderersAgree ==
  LET data == x509_ordered_name(name, android)
      canon(x) == x[2] \o <<61>> \o x[3]
      friendly(x) == Upper(x[2]) \o <<61>> \o ReprBody(x[4])
  IN  /\ op = "comparison" =>
           /\ Len(result) = Len(data)
           /\ \A i \in 1..Len(data) :
                /\ Len(result[i]) = Len(data[i])
                /\ \A j \in 1..Len(data[i]) :
                     result[i][j] = <<data[i][j][2], data[i][j][3]>>
      /\ op = "canonical" =>
           result = Flatten([i \in 1..Len(data) |->
                               Flatten([j \in 1..Len(data[i]) |-> canon(data[i][j])],
                                       <<43>>, TRUE)],
                            <<44>>, TRUE)
      /\ op = "friendly" =>
           result = Flatten([i \in 1..Len(data) |->
                               Flatten([j \in 1..Len(data[i]) |-> friendly(data[i][j])],
                                       <<43>>, TRUE)],
                            <<44, 32>>, TRUE)

\* a renderer was called in android mode on a name whose two orders differ
C7_Witness ==
  /\ op \in {"comparison", "canonical", "friendly"}
  /\ android
  /\ Len(name) = 2
  /\ x509_ordered_name(name, TRUE) # x509_ordered_name(name, FALSE)
  /\ Len(result) > 0

(* -------------------------------- C8 ----------------------------------- *)

\* x's key (oid_flag, type_label, normalized_value) is at most y's
KeyAtMost(x, y) ==
  \/ x[1] < y[1]
  \/ /\ x[1] = y[1]
     /\ \/ SeqLess(x[2], y[2])
        \/ x[2] = y[2] /\ ~SeqLess(y[3], x[3])

\* C8: in default mode every RDN of the result is in non-decreasing order of
\* (oid_flag, type_label, normalized_value), and in both modes no OID-named
\* tuple stands before a standard-type tuple of the same RDN.
C8_RDNsSorted ==
  op = "ordered" =>
    \A i \in 1..Len(result) :
      /\ ~android =>
           \A j \in 1..(Len(result[i]) - 1) : KeyAtMost(result[i][j], result[i][j + 1])
      /\ \A j, k \in 1..Len(result[i]) :
           j < k => ~(result[i][j][1] = 1 /\ result[i][k][1] = 0)

\* the RDN custom1=37+custom2=42+O=org of the doctest was sorted in default
\* mode: O first, then 0.1.11.3 before 0.1.2.3 as strs
C8_Witness ==
  /\ op = "ordered"
  /\ ~android
  /\ Len(name) = 2
  /\ Len(name[1]) = 3
  /\ name[1][3].type = <<2, 5, 4, 10>>
  /\ result[2][1][2] = <<111>>
  /\ result[2][2][2] = Dotted(<<0, 1, 11, 3>>)
  /\ result[2][3][2] = Dotted(<<0, 1, 2, 3>>)

(* -------------------------------- C9 ----------------------------------- *)

RECURSIVE Unescape(_)
\* x with every backslash dropped and the character after it kept
Unescape(x) ==
  IF x = <<>> THEN <<>>
  ELSE IF x[1] = 92 /\ Len(x) >= 2 THEN <<x[2]>> \o Unescape(SubSeq(x, 3, Len(x)))
  ELSE <<x[1]>> \o Unescape(Tail(x))

\* rv is s with a backslash before each of , + < > ; " \ and nothing else
\* changed, and one more backslash in front exactly if s begins with "#"
IsEscapeOf(rv, s) ==
  LET escapees == {k \in 1..Len(s) : s[k] \in {44, 43, 60, 62, 59, 34, 92}}
      body     == IF StartsWithHash(s) THEN Tail(rv) ELSE rv
  IN  /\ StartsWithHash(s) => (Len(rv) >= 2 /\ rv[1] = 92 /\ rv[2] = 35)
      /\ Len(body) = Len(s) + Cardinality(escapees)
      /\ Unescape(body) = s

\* C9: the raw_value of a directory string is the string with each escapee
\* replaced by backslash + escapee in one pass (an inserted backslash is not
\* escaped again), one more backslash in front if and only if it starts with
\* "#", and case, space runs and end characters kept.
C9_EscapingSinglePass ==
  op = "ordered" =>
    \A i \in 1..Len(result) : \A a \in Range(InputRDN(i)) :
      IsText(a.value) =>
        \E x \in Range(result[i]) :
          /\ x[2] = LabelOf(a.type)
          /\ IsEscapeOf(x[4], NativeOf(a.value))

\* a string with a backslash, a comma and a leading "#" was escaped
C9_Witness ==
  /\ op = "ordered"
  /\ IsTextName
  /\ name[1][1].value.native = <<35, 92, 44>>
  /\ result[1][1][4] = <<92, 35, 92, 92, 92, 44>>

(* -------------------------------- C10 ---------------------------------- *)

\* the tuple x of the i-th result RDN took the hex fallback: some input AVA
\* of that RDN is no directory text and x is its "#" + hex on both sides
TookHexPath(i, x) ==
  \E a \in Range(InputRDN(i)) :
    /\ ~IsText(a.value)
    /\ x[2] = LabelOf(a.type)
    /\ x[3] = x[4]
    /\ IsLowerHexOf(Tail(x[4]), Dump(a.value))

\* C10 as stated: a normalized_value begins with "#" only if the value took
\* the hex fallback; no directory string gives one that begins with "#".
C10_HashOnlyFromHexPath ==
  op = "ordered" =>
    \A i \in 1..Len(result) : \A x \in Range(result[i]) :
      StartsWithHash(x[3]) => TookHexPath(i, x)

\* C10 amended: a raw_value begins with "#" only if the value took the hex
\* fallback, and a directory string that itself begins with "#" gives a
\* normalized_value that begins with \#; a normalized_value begins with "#"
\* only on the hex fallback, or for a directory string whose "#" has one or
\* more characters <= U+0020, and nothing else, in front of it, or one whose
\* first character above U+0020 decomposes to "#" (U+FE5F, U+FF03).
C10_HashOnlyFromHexPathOrAfterBlanks ==
  op = "ordered" =>
    \A i \in 1..Len(result) : \A x \in Range(result[i]) :
      /\ StartsWithHash(x[4]) => TookHexPath(i, x)
      /\ (StartsWithHash(x[3]) /\ ~TookHexPath(i, x)) =>
           LET rest == LStrip(x[4], 0..32)
           IN  /\ rest # <<>>
               /\ \/ rest[1] = 35 /\ x[4][1] <= 32
                  \/ rest[1] \in {65119, 65283}
      /\ (Len(x[4]) >= 2 /\ x[4][1] = 92 /\ x[4][2] = 35) =>
           (Len(x[3]) >= 2 /\ x[3][1] = 92 /\ x[3][2] = 35)

\* a directory string beginning with "#" came out with raw_value and
\* normalized_value beginning with \#
C10_Witness ==
  /\ op = "ordered"
  /\ IsTextName
  /\ StartsWithHash(name[1][1].value.native)
  /\ Len(name[1][1].value.native) = 3
  /\ SubSeq(result[1][1][3], 1, 2) = <<92, 35>>
  /\ SubSeq(result[1][1][4], 1, 2) = <<92, 35>>

=============================================================================
